---- MODULE Spec2Model ----
(***************************************************************************)
(* divvy-cpp/src/ffi.cpp: the two extern "C" entry points                  *)
(*   divvy_cpp_alloc(size, align)        = ::operator new(size, align_val_t *)
(*                                           (align), std::nothrow)        *)
(*   divvy_cpp_dealloc(ptr, size, align) = ::operator delete(ptr, size,    *)
(*                                           align_val_t(align))           *)
(* together with the process-wide allocator they forward to.  The          *)
(* allocator is modelled by what the C++ library specifies for the two     *)
(* replaceable functions the code calls: the allocation loop of operator   *)
(* new (attempt, on failure call the installed new-handler and try again,  *)
(* with no handler throw bad_alloc), the nothrow form that turns the       *)
(* exception into a null pointer, and the sized, aligned operator delete   *)
(* that gives back exactly the bytes it is told.  Addresses and sizes are  *)
(* scaled down to a heap of HeapSize one-byte cells.                       *)
(***************************************************************************)
EXTENDS Integers, FiniteSets, Sequences, TLC

\* ---- bounds of the model ------------------------------------------------
HeapSize == 4          \* cells 1..HeapSize of the process-wide heap
MaxSize == 2           \* ordinary requests ask for 0..MaxSize bytes
MaxLive == 2           \* blocks the callers hold at the same time
MaxInstalls == 1       \* calls of std::set_new_handler in one run
SizeBits == 4          \* width of size_t in the model

\* ---- constants ----------------------------------------------------------
NULL == 0
SIZE_MAX == 2^SizeBits - 1

Threads == {1, 2}
Addr == 1..HeapSize
Byte == {0, 1}
Sizes == (0..MaxSize) \cup {SIZE_MAX}
ValidAligns == {1, 2, 4}
InvalidAligns == {0, 3}
Handlers == {"none", "release", "throw"}

Max(a, b) == IF a >= b THEN a ELSE b

\* align is a power of two (the precondition of std::align_val_t)
IsPow2(align) == align \in {1, 2, 4, 8, 16, 32, 64}

\* the cells of a block of `size` bytes at `ptr`; the allocator never hands
\* out the same address twice, so a zero-size block still occupies one cell
Cells(ptr, size) == ptr..(ptr + Max(size, 1) - 1)

\* the bytes [ptr, ptr+size) the caller may touch
Range(ptr, size) == ptr..(ptr + size - 1)

VARIABLES
    used,      \* allocator bookkeeping: the cells that are allocated
    mem,       \* contents of the heap cells
    call,      \* per thread: the operator new call in progress, if any
    handler,   \* the installed new-handler (std::get_new_handler)
    reserve,   \* cells the "release" handler holds and frees when called
    installs,  \* number of set_new_handler calls so far
    last,      \* the most recently completed call and how it ended
    live,      \* callers' view: the blocks they hold,
               \*   [ptr, size, align, owner, data], data = bytes last seen
    req,       \* callers' view: per thread, the request it is waiting for
    pre        \* history: heap and blocks when the pending request was made

vars == <<used, mem, call, handler, reserve, installs, last, live, req, pre>>

\* the byte at address a (an address outside the modelled heap reads as 0)
Peek(a) == IF a \in Addr THEN mem[a] ELSE 0

Idle == [pc |-> "idle", size |-> 0, align |-> 1, nothrow |-> TRUE,
         attempts |-> 0]

NoReq == [size |-> 0, align |-> 1]

\* what a caller remembers of the heap at the time of its request
NoPre == [used |-> {}, reserve |-> {}, live |-> {}]

NoCall == [op |-> "none", ptr |-> NULL, outcome |-> "returned",
           attempts |-> 0]

\* the process is running: no call has thrown into the foreign caller or
\* aborted
Alive == last.outcome = "returned"

Init ==
    /\ used = {}
    /\ mem = [a \in Addr |-> 0]
    /\ call = [t \in Threads |-> Idle]
    /\ handler = "none"
    /\ reserve = {}
    /\ installs = 0
    /\ last = NoCall
    /\ live = {}
    /\ req = [t \in Threads |-> NoReq]
    /\ pre = NoPre

\* ---- the process-wide allocator ----------------------------------------

\* addresses at which size bytes aligned to align can be placed when the
\* cells in `taken` are allocated
FitsIn(taken, size, align) ==
    {a \in Addr : /\ a % align = 0
                  /\ Cells(a, size) \subseteq (Addr \ taken)}

\* addresses at which the allocator can place the request now
Fits(size, align) == FitsIn(used, size, align)

\* the call of thread t ends: it returns ptr, throws or aborts
Finish(t, ptr, outcome, n) ==
    /\ last' = [op |-> "alloc", ptr |-> ptr, outcome |-> outcome,
                attempts |-> n]
    /\ call' = [call EXCEPT ![t] = Idle]

\* one pass of the loop of operator new: ask the allocator once
new_attempt(t, size, align, nothrow, n) ==
    IF Fits(size, align) # {}
    THEN \E a \in Fits(size, align) :
            /\ used' = used \cup Cells(a, size)
            /\ Finish(t, a, "returned", n)
            /\ UNCHANGED <<mem, handler, reserve, installs>>
    ELSE /\ call' = [call EXCEPT ![t] =
                       [pc |-> "failed", size |-> size, align |-> align,
                        nothrow |-> nothrow, attempts |-> n]]
         /\ UNCHANGED <<used, mem, handler, reserve, installs, last>>

\* an alignment that is no power of two violates the precondition of
\* operator new: the behaviour is undefined.  The builds differ: the call
\* returns null, aborts, or returns a block placed without regard to align.
new_undefined(t, size, align) ==
    \/ /\ Finish(t, NULL, "returned", 0)
       /\ UNCHANGED <<used, mem, handler, reserve, installs>>
    \/ /\ Finish(t, NULL, "aborted", 0)
       /\ UNCHANGED <<used, mem, handler, reserve, installs>>
    \/ \E a \in Fits(size, 1) :
            /\ used' = used \cup Cells(a, size)
            /\ Finish(t, a, "returned", 1)
            /\ UNCHANGED <<mem, handler, reserve, installs>>

\* ::operator new(size, align_val_t(align)) and, with nothrow = TRUE,
\* ::operator new(size, align_val_t(align), std::nothrow): entry and the
\* first pass of the loop
operator_new(t, size, align, nothrow) ==
    IF IsPow2(align)
    THEN new_attempt(t, size, align, nothrow, 1)
    ELSE new_undefined(t, size, align)

\* bad_alloc leaves the loop: the nothrow form catches it and returns null,
\* the throwing form lets it propagate into the foreign caller
new_throw(t) ==
    /\ IF call[t].nothrow
       THEN Finish(t, NULL, "returned", call[t].attempts)
       ELSE Finish(t, NULL, "threw", call[t].attempts)
    /\ UNCHANGED <<used, mem, handler, reserve, installs>>

\* the pass failed: get_new_handler(); no handler throws bad_alloc, else the
\* handler runs.  A "throw" handler throws bad_alloc; a "release" handler
\* frees its reserve and returns, and throws when it has nothing left.
new_handler(t) ==
    /\ call[t].pc = "failed"
    /\ IF handler = "release" /\ reserve # {}
       THEN /\ used' = used \ reserve
            /\ reserve' = {}
            /\ call' = [call EXCEPT ![t].pc = "retry"]
            /\ UNCHANGED <<mem, handler, installs, last>>
       ELSE new_throw(t)

\* the handler returned: the loop asks the allocator again
new_retry(t) ==
    /\ call[t].pc = "retry"
    /\ new_attempt(t, call[t].size, call[t].align, call[t].nothrow,
                   call[t].attempts + 1)

\* ::operator delete(ptr, size, align_val_t(align)): the cells of the block
\* go back to the allocator, which may overwrite them
operator_delete(t, ptr, size, align) ==
    /\ used' = used \ Cells(ptr, size)
    /\ mem' = [a \in Addr |-> IF a \in Cells(ptr, size) THEN 0 ELSE mem[a]]
    /\ last' = [op |-> "dealloc", ptr |-> ptr, outcome |-> "returned",
                attempts |-> 0]
    /\ UNCHANGED <<call, handler, reserve, installs>>

\* ---- the boundary (ffi.cpp) --------------------------------------------

\* faulty variants of the boundary, for fault injection: the throwing
\* operator new instead of the nothrow one, and size and align passed in each
\* other's place
alloc_throwing(t, size, align) ==
    operator_new(t, size, align, FALSE)

alloc_swapped(t, size, align) ==
    operator_new(t, align, size, TRUE)

dealloc_swapped(t, ptr, size, align) ==
    operator_delete(t, ptr, align, size)

divvy_cpp_alloc(t, size, align) ==
    operator_new(t, size, align, TRUE)

divvy_cpp_dealloc(t, ptr, size, align) ==
    operator_delete(t, ptr, size, align)

\* ---- the callers ---------------------------------------------------------

CanCall(t) == Alive /\ call[t].pc = "idle"

\* the caller's side of a step of its allocate call: while the call is in
\* progress it keeps waiting; when the call returns an address it holds a
\* block of the size and alignment it asked for, with the bytes found there
Receive(t, r, p) ==
    IF call'[t].pc # "idle"
    THEN /\ req' = [req EXCEPT ![t] = r]
         /\ pre' = p
         /\ live' = live
    ELSE /\ req' = [req EXCEPT ![t] = NoReq]
         /\ pre' = NoPre
         /\ live' = IF last'.outcome = "returned" /\ last'.ptr # NULL
                    THEN live \cup
                           {[ptr |-> last'.ptr, size |-> r.size,
                             align |-> r.align, owner |-> t,
                             data |-> [i \in 0..(r.size - 1) |->
                                         Peek(last'.ptr + i)]]}
                    ELSE live

\* hist: the specification records the history variable pre (it has one
\* caller, so nothing else changes the heap while the call is in progress)
Allocate(t, sizes, aligns, hist) ==
    /\ CanCall(t)
    /\ Cardinality(live) < MaxLive
    /\ \E size \in sizes, align \in aligns :
           /\ divvy_cpp_alloc(t, size, align)
           /\ Receive(t, [size |-> size, align |-> align],
                      IF hist
                      THEN [used |-> used, reserve |-> reserve, live |-> live]
                      ELSE NoPre)

\* inside a call that did not succeed at once: the new-handler runs
Handle(t) ==
    /\ Alive
    /\ new_handler(t)
    /\ Receive(t, req[t], pre)

\* inside a call whose new-handler returned: operator new tries again
Retry(t) ==
    /\ Alive
    /\ new_retry(t)
    /\ Receive(t, req[t], pre)

\* a thread frees a block it allocated, with the size and align it asked for
Deallocate(t) ==
    /\ CanCall(t)
    /\ \E b \in live :
           /\ b.owner = t
           /\ divvy_cpp_dealloc(t, b.ptr, b.size, b.align)
           /\ live' = live \ {b}
           /\ UNCHANGED <<req, pre>>

\* the owner writes a byte into its block
Write(t) ==
    /\ CanCall(t)
    /\ \E b \in live, v \in Byte :
         \E i \in 0..(b.size - 1) :
           /\ b.owner = t
           /\ b.data[i] # v
           /\ mem' = [a \in Addr |-> IF a = b.ptr + i THEN v ELSE mem[a]]
           /\ live' = (live \ {b}) \cup {[b EXCEPT !.data[i] = v]}
           /\ UNCHANGED <<used, call, handler, reserve, installs, last, req, pre>>

\* std::set_new_handler(h).  A "release" handler is installed together with
\* the reserve it will free (taken with plain operator new, here 1 byte);
\* the previous handler's reserve is given back.
SetNewHandler(t) ==
    /\ CanCall(t)
    /\ installs < MaxInstalls
    /\ installs' = installs + 1
    /\ \E h \in Handlers \ {handler} :
         /\ handler' = h
         /\ IF h = "release"
            THEN \E a \in Fits(1, 1) :
                    /\ reserve' = Cells(a, 1)
                    /\ used' = used \cup Cells(a, 1)
            ELSE /\ reserve' = {}
                 /\ used' = used \ reserve
    /\ UNCHANGED <<mem, call, last, live, req, pre>>

\* the steps of the boundary's two entry points
CallStep(t, sizes, aligns, hist) ==
    \/ Allocate(t, sizes, aligns, hist)
    \/ Handle(t)
    \/ Retry(t)
    \/ Deallocate(t)

\* one caller, valid requests
Next ==
    \/ CallStep(1, Sizes, ValidAligns, TRUE)
    \/ Write(1)
    \/ SetNewHandler(1)

Spec == Init /\ [][Next]_vars

\* several threads, each freeing its own blocks; every thread asks for one
\* byte or for the largest size, aligned to 1 or 2
ThreadSizes == {1, SIZE_MAX}

ThreadAligns == {1, 2}

NextThreads ==
    \E t \in Threads :
        \/ CallStep(t, ThreadSizes, ThreadAligns, FALSE)
        \/ SetNewHandler(t)

SpecThreads == Init /\ [][NextThreads]_vars

\* a thread inside a call is scheduled again, and so is the library's loop
FairThreads ==
    SpecThreads /\ \A t \in Threads : WF_vars(Handle(t) \/ Retry(t))

\* one caller that also passes alignments that are no power of two
NextAnyAlign ==
    \/ CallStep(1, Sizes, ValidAligns \cup InvalidAligns, TRUE)
    \/ Write(1)
    \/ SetNewHandler(1)

SpecAnyAlign == Init /\ [][NextAnyAlign]_vars

\* ---- the claims ----------------------------------------------------------

\* a step in which an allocate call of some thread ends
AllocEnds(t) == call[t].pc # "idle" /\ call'[t].pc = "idle"

\* a step that completes a deallocate call
DeallocEnds == last'.op = "dealloc" /\ last' # last

\* the bytes of block b as the heap holds them
Stored(b) == [i \in 0..(b.size - 1) |-> Peek(b.ptr + i)]

AllocResultAligned ==
    /\ last.op = "alloc" =>
          \/ last.ptr = NULL
          \/ /\ last.ptr \in Addr
             /\ \E b \in live : b.ptr = last.ptr
    /\ \A b \in live : b.ptr # NULL /\ b.ptr % b.align = 0

AlignedBlockReturned ==
    /\ last.op = "alloc"
    /\ \E b \in live : b.ptr = last.ptr /\ b.align = 4 /\ b.size = 1

\* C3: every live block lies inside the heap, is allocated, is disjoint from
\* every other live block, and holds the bytes last written into it.
LiveBlocksOwned ==
    \A b \in live :
        /\ Range(b.ptr, b.size) \subseteq Addr
        /\ Cells(b.ptr, b.size) \subseteq used \ reserve
        /\ Stored(b) = b.data
        /\ \A c \in live :
              c # b => Cells(b.ptr, b.size) \cap Cells(c.ptr, c.size) = {}

TwoWrittenBlocks ==
    \E b, c \in live :
        /\ b.ptr # c.ptr
        /\ b.size = 2 /\ b.data[0] = 1 /\ b.data[1] = 0
        /\ c.size > 0 /\ c.data[0] = 1

\* C4: a deallocate of a live block with its own size and align releases
\* that block and nothing else: every other live block keeps its address,
\* size, alignment and contents, and stays allocated.
DeallocFreesOnlyThatBlock ==
    [][DeallocEnds =>
         \E f \in live :
            /\ f.ptr = last'.ptr
            /\ live' = live \ {f}
            /\ used' = used \ Cells(f.ptr, f.size)
            /\ \A b \in live' :
                  /\ Cells(b.ptr, b.size) \subseteq used'
                  /\ \A i \in 0..(b.size - 1) :
                        mem'[b.ptr + i] = mem[b.ptr + i]]_vars

OtherBlockSurvivedDealloc ==
    /\ last.op = "dealloc"
    /\ \E b \in live : b.size = 2 /\ b.data[0] = 1 /\ b.data[1] = 1

\* C5: once every allocated block has been deallocated (sizes 0..MaxSize and
\* alignments 1, 2, 4 stand for the 1..4096 and 1..64 of the cycles), the
\* boundary holds no heap (only the new-handler's reserve is allocated), and
\* with no reserve every request that fits the initial heap fits again.
NoLeakAfterCycles ==
    (live = {} /\ \A t \in Threads : call[t].pc = "idle") =>
        /\ used = reserve
        /\ reserve = {} =>
              \A size \in Sizes, align \in ValidAligns :
                  FitsIn({}, size, align) # {} => Fits(size, align) # {}

AllFreedAgain ==
    /\ live = {}
    /\ last.op = "dealloc"
    /\ handler = "release"
    /\ reserve = {}

\* C6: under every interleaving, blocks held by different threads never
\* overlap and stay allocated, no call throws or aborts, and every call
\* returns.
ThreadsDoNotCollide ==
    /\ [](\A b, c \in live :
            b # c => Cells(b.ptr, b.size) \cap Cells(c.ptr, c.size) = {})
    /\ [](\A b \in live : Cells(b.ptr, b.size) \subseteq used \ reserve)
    /\ [](last.outcome = "returned")
    /\ \A t \in Threads : (call[t].pc # "idle") ~> (call[t].pc = "idle")

BothThreadsHoldBlocks ==
    /\ \E b, c \in live : b.owner = 1 /\ c.owner = 2
    /\ call[1].pc = "retry"

\* C7: within one allocate call the allocator is asked at most once, also
\* with a new-handler installed.
AskedAtMostOnce ==
    last.op = "alloc" => last.attempts <= 1

\* C8: when allocate returns null, the live blocks and the heap are what
\* they were when the call was made.
NullLeavesHeapUnchanged ==
    [][\A t \in Threads :
          (AllocEnds(t) /\ last'.ptr = NULL) =>
              /\ live' = pre.live
              /\ used' = pre.used
              /\ reserve' = pre.reserve]_vars

\* C9: allocate with an align that is zero or no power of two returns null
\* and does not throw or abort.
InvalidAlignReturnsNull ==
    [][(\E size \in Sizes, align \in InvalidAligns :
            divvy_cpp_alloc(1, size, align)) =>
           last'.ptr = NULL /\ last'.outcome = "returned"]_vars

\* C10: allocate(0, align) returns null or a non-null aligned address of its
\* own, without a throw or abort; deallocate(ptr, 0, align) of it returns
\* and leaves every other live block as it was.
ZeroSizeIsSafe ==
    [][/\ last'.outcome = "returned"
       /\ \A z \in live' :
             z.size = 0 =>
                 /\ z.ptr # NULL /\ z.ptr % z.align = 0
                 /\ z.ptr \in used'
                 /\ \A c \in live' :
                       c # z => z.ptr \notin Cells(c.ptr, c.size)
       /\ \A z \in live :
             (DeallocEnds /\ z.ptr = last'.ptr /\ z.size = 0) =>
                 /\ live' = live \ {z}
                 /\ used' = used \ {z.ptr}
                 /\ \A b \in live' :
                       \A i \in 0..(b.size - 1) :
                           mem'[b.ptr + i] = mem[b.ptr + i]]_vars

ZeroSizeBlockHeld ==
    /\ last.op = "alloc"
    /\ \E z, c \in live :
          /\ z.ptr = last.ptr /\ z.size = 0 /\ z.align = 2
          /\ c.size = 2 /\ c.data[0] = 1

====
